---- MODULE Spec2Model ----
(***************************************************************************)
(* BasicGraphicsScene (include/QtNodes/internal/BasicGraphicsScene.hpp):   *)
(* the scene that keeps one graphical object per node and per connection   *)
(* of an AbstractGraphModel, plus at most one "draft" connection.          *)
(*                                                                         *)
(* The header declares the state (the two keyed registries, the draft      *)
(* slot, the strategies, the orientation) and the slots; the bodies of the *)
(* slots are not part of the header and are modelled from the design       *)
(* document (sections 4.1-4.4, 5 and 7).                                   *)
(***************************************************************************)
EXTENDS Integers, Sequences, FiniteSets, Bags, TLC

\* ------------------------------------------------------------- bounds
\* Node ids of the bounded model are 1..NumNodes.
NumNodes == 2
\* The model holds at most MaxConns connections at a time.
MaxConns == 2

\* ------------------------------------------------------- identity types
InvalidNodeId == 0
InvalidPortIndex == -1

NodeIds == 1..NumNodes
\* Every node of the bounded model has one In port and one Out port.
PortIndices == {0}

\* Qt::Orientation
Orientations == {"Horizontal", "Vertical"}

\* places of the scene a node can be at; a node is at p0 until it is moved
Positions == {"p0", "p1"}

NowhereMoved == [n \in NodeIds |-> "p0"]

\* the instances a strategy pointer can own: the one the scene is built
\* with and one handed to a setter
Strategies == {"default", "custom"}

\* ConnectionId = {outNodeId, outPortIndex, inNodeId, inPortIndex}; equality
\* is structural over the four fields.  Self-loops are ConnectionIds too.
ConnectionIds ==
    [outNodeId : NodeIds, outPortIndex : PortIndices,
     inNodeId : NodeIds, inPortIndex : PortIndices]

\* The incomplete ConnectionId a draft is made with: one end names a real
\* node and port, the other end is invalid.
DraftIds ==
    [outNodeId : NodeIds, outPortIndex : PortIndices,
     inNodeId : {InvalidNodeId}, inPortIndex : {InvalidPortIndex}]
    \cup
    [outNodeId : {InvalidNodeId}, outPortIndex : {InvalidPortIndex},
     inNodeId : NodeIds, inPortIndex : PortIndices]

NoConnectionId ==
    [outNodeId |-> InvalidNodeId, outPortIndex |-> InvalidPortIndex,
     inNodeId |-> InvalidNodeId, inPortIndex |-> InvalidPortIndex]

\* connection c is attached to node n on either end
Touches(c, n) == c.outNodeId = n \/ c.inNodeId = n

\* the end of an incomplete id that is bound to a node
BoundNode(d) == IF d.outNodeId # InvalidNodeId THEN d.outNodeId ELSE d.inNodeId

\* the full connection c is what the draft d was reaching toward: it starts
\* (or ends) at the port the draft is bound to
DraftMatches(d, c) ==
    \/ d.outNodeId # InvalidNodeId
       /\ d.outNodeId = c.outNodeId /\ d.outPortIndex = c.outPortIndex
    \/ d.inNodeId # InvalidNodeId
       /\ d.inNodeId = c.inNodeId /\ d.inPortIndex = c.inPortIndex

\* -------------------------------------------- the graph model (external)
\* all subsets of S with at most k elements
RECURSIVE SubsetsUpTo(_, _)
SubsetsUpTo(S, k) ==
    IF k = 0 THEN {{}}
    ELSE LET P == SubsetsUpTo(S, k - 1)
         IN  P \cup {p \cup {x} : p \in P, x \in S}

\* a graph is consistent when its connections join nodes it holds
Consistent(g) ==
    \A c \in g.conns : c.outNodeId \in g.nodes /\ c.inNodeId \in g.nodes

Graphs ==
    {g \in [nodes : SUBSET NodeIds, conns : SubsetsUpTo(ConnectionIds, MaxConns)] :
        Consistent(g)}

\* AbstractGraphModel::connections(nodeId, PortType::Out, index)
OutConnections(g, n, p) ==
    {c \in g.conns : c.outNodeId = n /\ c.outPortIndex = p}

\* the orders in which allNodeIds() may enumerate the node set S
Orders(S) ==
    {o \in [1..Cardinality(S) -> S] : \A i, j \in 1..Cardinality(S) : o[i] = o[j] => i = j}

\* ------------------------------------------------------------ the state
VARIABLES
    _graphModel,                  \* the AbstractGraphModel's nodes and connections
    _nodeGraphicsObjects,         \* keys of the NodeId -> NodeGraphicsObject map
    _connectionGraphicsObjects,   \* keys of the ConnectionId -> ConnectionGraphicsObject map
    _draftConnection,             \* {} (nullptr) or {id}: the owned draft object
    items,                        \* the graphical objects alive in the QGraphicsScene
    _orientation,                 \* Qt::Horizontal or Qt::Vertical
    _nodeGeometry,                \* the owned AbstractNodeGeometry instance
    _nodePainter,                 \* the owned AbstractNodePainter instance
    _connectionPainter,           \* the owned AbstractConnectionPainter instance
    layout,                       \* for each node and connection object, the geometry
                                  \* instance its cached layout was computed with
    position,                     \* the place the model reports for each node
    pos,                          \* the place each node graphical object is at
    walk,                         \* the traversal in progress: its position, its
                                  \* call stack and what it has visited and built
    lastOp,                       \* the slot or function that ran last, and how it ended
    trail                         \* the scenes that slot went through, from the one
                                  \* it was entered in, before the scene it left

vars ==
    <<_graphModel, _nodeGraphicsObjects, _connectionGraphicsObjects,
      _draftConnection, items, _orientation, _nodeGeometry, _nodePainter,
      _connectionPainter, layout, position, pos, walk, lastOp, trail>>

\* The scene as one value: the registries' keys, the draft slot, the bags
\* of live node objects, full connection objects and draft objects, the
\* orientation flag, the owned strategies, the layout cached in the objects,
\* the places of the node objects, and the places the model reports through
\* the scene's reference to it.
Scene ==
    [nodes |-> _nodeGraphicsObjects, conns |-> _connectionGraphicsObjects,
     draft |-> _draftConnection, items |-> items,
     orientation |-> _orientation, nodeGeometry |-> _nodeGeometry,
     nodePainter |-> _nodePainter, connectionPainter |-> _connectionPainter,
     layout |-> layout, position |-> position, pos |-> pos]

\* no object, no cached layout
NoLayout == [node |-> <<>>, conn |-> <<>>]

\* the cache f with the layout of object x computed with the instance g
Cached(f, x, g) == (x :> g) @@ f

\* the cache f without the object x, which is destroyed
Uncached(f, x) == [y \in DOMAIN f \ {x} |-> f[y]]

EmptyScene ==
    [nodes |-> {}, conns |-> {}, draft |-> {},
     items |-> [node |-> EmptyBag, conn |-> EmptyBag, draft |-> EmptyBag],
     orientation |-> "Horizontal", nodeGeometry |-> "default",
     nodePainter |-> "default", connectionPainter |-> "default",
     layout |-> NoLayout, position |-> NowhereMoved, pos |-> NowhereMoved]

nullptr == <<>>

\* ------------------------------------------------- queries of the scene
\* (variant: the iterator is used without the comparison against end())
nodeGraphicsObjectUnchecked(s, nodeId) == <<"NodeGraphicsObject", nodeId>>

nodeGraphicsObject(s, nodeId) ==
    IF nodeId \in s.nodes THEN <<"NodeGraphicsObject", nodeId>> ELSE nullptr

\* (variant: the iterator is used without the comparison against end())
connectionGraphicsObjectUnchecked(s, connectionId) ==
    <<"ConnectionGraphicsObject", connectionId>>

connectionGraphicsObject(s, connectionId) ==
    IF connectionId \in s.conns
    THEN <<"ConnectionGraphicsObject", connectionId>> ELSE nullptr

\* ------------------------------ ownership: the maps of unique_ptr, the slot
\* A graphical object constructed for the scene is one more item of it, laid
\* out with the geometry the scene owns; a node object is put where the
\* model reports its node.
ConstructNode(s, n) ==
    [s EXCEPT !.items.node = @ (+) SetToBag({n}), !.pos[n] = s.position[n],
              !.layout.node = Cached(@, n, s.nodeGeometry)]

ConstructConnection(s, c) ==
    [s EXCEPT !.items.conn = @ (+) SetToBag({c}),
              !.layout.conn = Cached(@, c, s.nodeGeometry)]

ConstructDraft(s, d) ==
    [s EXCEPT !.items.draft = @ (+) SetToBag({d})]

\* (variant: the constructed object is not moved into the map and dies at
\* the end of the scope)
InsertNodeDrops(s, n) ==
    [s EXCEPT !.items.node = @ (-) SetToBag({n})]

\* (variant: ConnectionId equality and hash look at the Out end only, so
\* two connections leaving the same port share a key)
InsertConnectionCollides(s, c) ==
    LET clash == {k \in s.conns :
                     k.outNodeId = c.outNodeId /\ k.outPortIndex = c.outPortIndex}
    IN  [s EXCEPT !.conns = (@ \ clash) \cup {c},
                  !.items.conn = @ (-) SetToBag(clash)]

\* map[key] = std::move(object): an object the key owned before is destroyed
InsertNode(s, n) ==
    [s EXCEPT !.nodes = @ \cup {n},
              !.items.node = IF n \in s.nodes THEN @ (-) SetToBag({n}) ELSE @]

InsertConnection(s, c) ==
    [s EXCEPT !.conns = @ \cup {c},
              !.items.conn = IF c \in s.conns THEN @ (-) SetToBag({c}) ELSE @]

\* (variant: a map of raw pointers, whose erase leaves the object alive)
EraseNodeLeaks(s, n) ==
    [s EXCEPT !.nodes = @ \ {n}]

EraseConnectionLeaks(s, c) ==
    [s EXCEPT !.conns = @ \ {c}]

\* (variant: the key is not found and nothing is erased)
EraseConnectionMisses(s, c) == s

EraseNodeMisses(s, n) == s

\* map.erase(key): the owned object is destroyed with its entry
EraseNode(s, n) ==
    IF n \in s.nodes
    THEN [s EXCEPT !.nodes = @ \ {n}, !.items.node = @ (-) SetToBag({n}),
                   !.pos[n] = "p0", !.layout.node = Uncached(@, n)]
    ELSE s

EraseConnection(s, c) ==
    IF c \in s.conns
    THEN [s EXCEPT !.conns = @ \ {c}, !.items.conn = @ (-) SetToBag({c}),
                   !.layout.conn = Uncached(@, c)]
    ELSE s

RECURSIVE EraseConnections(_, _)
EraseConnections(s, cs) ==
    IF cs = {} THEN s
    ELSE LET c == CHOOSE x \in cs : TRUE
         IN  EraseConnections(EraseConnection(s, c), cs \ {c})

RECURSIVE EraseNodes(_, _)
EraseNodes(s, ns) ==
    IF ns = {} THEN s
    ELSE LET n == CHOOSE x \in ns : TRUE
         IN  EraseNodes(EraseNode(s, n), ns \ {n})

\* (variant: the reset is left out)
ResetDraftSkipped(s) == s

\* (variant: release() instead of reset(): the slot is emptied, the object
\* stays in the scene)
ResetDraftLeaks(s) ==
    [s EXCEPT !.draft = {}]

\* _draftConnection.reset(): the owned draft, if any, is destroyed
ResetDraft(s) ==
    [s EXCEPT !.draft = {}, !.items.draft = @ (-) SetToBag(s.draft)]

\* (variant: the draft is put into the connection map, under its partial id)
AssignDraftKeyed(s, d) ==
    [s EXCEPT !.conns = @ \cup {d}, !.items.conn = @ (+) SetToBag({d}),
              !.items.draft = @ (-) SetToBag({d})]

\* _draftConnection = std::move(object): a draft the slot owned is destroyed
AssignDraft(s, d) ==
    [s EXCEPT !.draft = {d}, !.items.draft = @ (-) SetToBag(s.draft)]

\* ---------------------------------------------------------------- slots
\* the graphical objects a slot marks for recomputation of their geometry
\* and redraw: node objects, full connection objects, the draft
NoMarks == [node |-> {}, conn |-> {}, draft |-> {}]

\* every graphical object of the scene
AllObjects(s) == [node |-> s.nodes, conn |-> s.conns, draft |-> s.draft]

\* A slot yields the scenes it goes through, from the scene it is entered in
\* to the scene it leaves, how it ended: "done", "noop" (benign absence or
\* duplicate) or "logged" (a protocol inconsistency, reported and skipped),
\* the objects it marked for redraw and the signals it emitted.
Ran(steps, outcome) ==
    [steps |-> steps, outcome |-> outcome, marked |-> NoMarks, emitted |-> <<>>]

\* the layout of the marked node and connection objects is computed anew,
\* with the geometry the scene owns
Recomputed(s, marks) ==
    [s EXCEPT !.layout.node =
                  [n \in DOMAIN @ |-> IF n \in marks.node THEN s.nodeGeometry ELSE @[n]],
              !.layout.conn =
                  [c \in DOMAIN @ |-> IF c \in marks.conn THEN s.nodeGeometry ELSE @[c]]]

Marking(r, marks) ==
    [r EXCEPT !.marked = marks, !.steps[Len(r.steps)] = Recomputed(@, marks)]

Emitting(r, signals) == [r EXCEPT !.emitted = @ \o signals]

\* (variant: the signal goes out once more, as when it is connected twice)
nodeClickedTwice(nodeId) ==
    <<[signal |-> "nodeClicked", node |-> nodeId],
      [signal |-> "nodeClicked", node |-> nodeId]>>

\* Q_EMIT nodeClicked(nodeId): what goes out to the observers
nodeClicked(nodeId) == <<[signal |-> "nodeClicked", node |-> nodeId]>>

\* PortType
PortTypes == {"In", "Out"}

\* the node on the portType side of the connection
getNodeId(portType, connectionId) ==
    IF portType = "Out" THEN connectionId.outNodeId ELSE connectionId.inNodeId

\* (variant: every node object of the scene is redrawn)
updateAttachedNodesAll(s, connectionId, portType) == s.nodes

\* Redraws adjacent nodes for given connectionId: the node object on the
\* portType side, if there is one
updateAttachedNodes(s, connectionId, portType) ==
    IF nodeGraphicsObject(s, getNodeId(portType, connectionId)) = nullptr
    THEN {}
    ELSE {getNodeId(portType, connectionId)}

\* the port-adjacency visuals of the two endpoint nodes are redrawn
AttachedNodesUpdated(s, connectionId) ==
    [NoMarks EXCEPT !.node = UNION {updateAttachedNodes(s, connectionId, t) :
                                      t \in PortTypes}]

\* Node created (id): if not already present, construct and insert.
onNodeCreated(s, nodeId) ==
    IF nodeId \in s.nodes
    THEN Ran(<<s, s>>, "noop")
    ELSE Ran(<<s, InsertNode(ConstructNode(s, nodeId), nodeId)>>, "done")

\* Node deleted (id): the connection objects attached to the node go with
\* it, and never after it; deleting an absent id is a no-op.
onNodeDeleted(s, nodeId) ==
    IF nodeId \notin s.nodes
    THEN Ran(<<s, s>>, "noop")
    ELSE LET s1 == EraseConnections(s, {c \in s.conns : Touches(c, nodeId)})
         IN  Ran(<<s, s1, EraseNode(s1, nodeId)>>, "done")

\* Connection created (id): a duplicate is a no-op; a connection whose end
\* node has no graphical object is skipped and logged; otherwise the draft
\* that was reaching toward this connection is discarded first, the full
\* connection object is constructed and inserted, and the two endpoint
\* nodes are redrawn.
onConnectionCreated(s, connectionId) ==
    IF connectionId \in s.conns
    THEN Ran(<<s, s>>, "noop")
    ELSE IF nodeGraphicsObject(s, connectionId.outNodeId) = nullptr
            \/ nodeGraphicsObject(s, connectionId.inNodeId) = nullptr
    THEN Ran(<<s, s>>, "logged")
    ELSE LET s1 == IF \E d \in s.draft : DraftMatches(d, connectionId)
                   THEN ResetDraft(s) ELSE s
             s2 == InsertConnection(ConstructConnection(s1, connectionId), connectionId)
         IN  Marking(Ran(<<s, s1, s2>>, "done"), AttachedNodesUpdated(s2, connectionId))

\* Connection deleted (id): erase, and redraw the two endpoint nodes;
\* idempotent.
onConnectionDeleted(s, connectionId) ==
    IF connectionId \in s.conns
    THEN LET s1 == EraseConnection(s, connectionId)
         IN  Marking(Ran(<<s, s1>>, "done"), AttachedNodesUpdated(s1, connectionId))
    ELSE Ran(<<s, s>>, "noop")

\* begin(): a draft that exists is discarded first, then the new draft is
\* constructed and put into the slot.
makeDraftConnection(s, newConnectionId) ==
    LET s1 == ResetDraft(s)
        s2 == ConstructDraft(s1, newConnectionId)
    IN  Ran(<<s, s1, s2, AssignDraft(s2, newConnectionId)>>, "done")

\* cancel(): safe with no draft present.
resetDraftConnection(s) ==
    Ran(<<s, ResetDraft(s)>>, IF s.draft = {} THEN "noop" ELSE "done")

\* Deletes all the nodes; the connections are removed before their nodes.
clearScene(s) ==
    LET s1 == EraseConnections(s, s.conns)
    IN  Ran(<<s, s1, EraseNodes(s1, s1.nodes)>>, "done")

\* (variant: the accessor answers the orientation the scene is built with)
orientationInitial(s) == "Horizontal"

\* Qt::Orientation orientation() const { return _orientation; }
orientation(s) == s.orientation

\* Changing the orientation invalidates the geometry of every existing
\* graphical object and triggers a full redraw pass: not a rebuild, no
\* object is constructed or destroyed.  Setting the orientation the scene
\* has changes nothing.
setOrientation(s, newOrientation) ==
    IF orientation(s) = newOrientation
    THEN Ran(<<s, s>>, "noop")
    ELSE Marking(Ran(<<s, [s EXCEPT !.orientation = newOrientation]>>, "done"),
                 AllObjects(s))

\* (variant: the accessor answers the instance the scene is built with)
nodeGeometryInitial(s) == "default"

\* AbstractNodeGeometry &nodeGeometry(), and the two painters alike
nodeGeometry(s) == s.nodeGeometry

nodePainter(s) == s.nodePainter

connectionPainter(s) == s.connectionPainter

\* The owned instance is replaced.  The swap takes effect for the queries
\* that follow; layout cached before it is not fixed, no redraw pass is
\* triggered.
setNodeGeometry(s, newGeom) ==
    Ran(<<s, [s EXCEPT !.nodeGeometry = newGeom]>>, "done")

setNodePainter(s, newPainter) ==
    Ran(<<s, [s EXCEPT !.nodePainter = newPainter]>>, "done")

setConnectionPainter(s, newPainter) ==
    Ran(<<s, [s EXCEPT !.connectionPainter = newPainter]>>, "done")

\* Node position updated (id): the node object, if there is one, is put
\* where the model reports the node, and then every connection object
\* attached to a port of the node is recomputed and redrawn; a missing node
\* is logged.
onNodePositionUpdated(s, nodeId) ==
    IF nodeGraphicsObject(s, nodeId) = nullptr
    THEN Ran(<<s, s>>, "logged")
    ELSE Marking(Ran(<<s, [s EXCEPT !.pos[nodeId] = s.position[nodeId]]>>, "done"),
                 [NoMarks EXCEPT !.conn = {c \in s.conns : Touches(c, nodeId)}])

\* Node content updated (id): the cached geometry of the node object, if
\* there is one, is invalidated and a redraw requested; a missing node is a
\* no-op.
onNodeUpdated(s, nodeId) ==
    IF nodeGraphicsObject(s, nodeId) = nullptr
    THEN Ran(<<s, s>>, "noop")
    ELSE Marking(Ran(<<s, s>>, "done"), [NoMarks EXCEPT !.node = {nodeId}])

\* User clicks node: forwarded as a notification, no registry mutation.
onNodeClicked(s, nodeId) ==
    Emitting(Ran(<<s, s>>, "done"), nodeClicked(nodeId))

\* ------------------------------------------- population by graph traversal
\* Materialising during the traversal is guarded by the registry's "already
\* present" check alone, keyed by the id.
PopulateNode(s, n) ==
    IF n \in s.nodes THEN s ELSE InsertNode(ConstructNode(s, n), n)

PopulateConnection(s, c) ==
    IF c \in s.conns THEN s ELSE InsertConnection(ConstructConnection(s, c), c)

\* Depth-first walk: a node not seen yet gets its graphical object, then
\* each connection on each of its Out ports is materialised and the walk
\* goes on at the connection's In-side node.
RECURSIVE Visit(_, _, _)
RECURSIVE VisitOut(_, _, _, _)
RECURSIVE VisitPorts(_, _, _, _)

Visit(st, g, n) ==
    IF n \in st.visited THEN st
    ELSE VisitPorts([visited |-> st.visited \cup {n}, s |-> PopulateNode(st.s, n)],
                    g, n, PortIndices)

VisitPorts(st, g, n, ports) ==
    IF ports = {} THEN st
    ELSE LET p == CHOOSE x \in ports : \A y \in ports : x <= y
         IN  VisitPorts(VisitOut(st, g, n, OutConnections(g, n, p)), g, n, ports \ {p})

VisitOut(st, g, n, cs) ==
    IF cs = {} THEN st
    ELSE LET c   == CHOOSE x \in cs : TRUE
             st1 == [st EXCEPT !.s = PopulateConnection(@, c)]
         IN  VisitOut(Visit(st1, g, c.inNodeId), g, n, cs \ {c})

RECURSIVE VisitAll(_, _, _, _)
VisitAll(st, g, order, i) ==
    IF i > Len(order) THEN st
    ELSE VisitAll(Visit(st, g, order[i]), g, order, i + 1)

\* the walk starts from every node, in the order the model enumerates them
traverseGraphAndPopulateGraphicsObjects(s, g, order) ==
    VisitAll([visited |-> {}, s |-> s], g, order, 1).s

\* The traversal step by step.  A walk holds the index in the enumeration of
\* the next node to start from, the stack of the nodes being walked, each
\* with the connections of its Out ports not followed yet, the nodes
\* visited, and how often each node was constructed and walked.
NoWalk ==
    [pc |-> "idle", next |-> 1, stack |-> <<>>, visited |-> {},
     built |-> EmptyBag, walked |-> EmptyBag, steps |-> 0]

\* the connections on the Out ports of n
OutPending(g, n) == UNION {OutConnections(g, n, p) : p \in PortIndices}

\* of the connections not followed yet, those on the lowest Out port
NextOut(pending) ==
    {c \in pending : \A d \in pending : c.outPortIndex <= d.outPortIndex}

\* (variant: the node is not recorded as visited)
WalkEnterUnmarked(w, s, g, n) ==
    [w |-> [w EXCEPT !.built = IF n \in s.nodes THEN @ ELSE @ (+) SetToBag({n}),
                     !.walked = @ (+) SetToBag({n}),
                     !.stack = Append(@, [node |-> n, pending |-> OutPending(g, n)])],
     s |-> PopulateNode(s, n)]

\* a node not visited yet is recorded as visited, gets its graphical object
\* and is walked
WalkEnter(w, s, g, n) ==
    [w |-> [w EXCEPT !.visited = @ \cup {n},
                     !.built = IF n \in s.nodes THEN @ ELSE @ (+) SetToBag({n}),
                     !.walked = @ (+) SetToBag({n}),
                     !.stack = Append(@, [node |-> n, pending |-> OutPending(g, n)])],
     s |-> PopulateNode(s, n)]

\* the walk goes to n, which is left alone when it was visited before
WalkVisit(w, s, g, n) ==
    IF n \in w.visited THEN [w |-> w, s |-> s] ELSE WalkEnter(w, s, g, n)

\* the next node of the enumeration is visited
WalkStart(w, s, g, order) ==
    WalkVisit([w EXCEPT !.next = @ + 1], s, g, order[w.next])

\* the connection c of the node on top of the stack is materialised and the
\* walk goes on at its In-side node
WalkFollow(w, s, g, c) ==
    LET top == Len(w.stack)
    IN  WalkVisit([w EXCEPT !.stack[top].pending = @ \ {c}],
                  PopulateConnection(s, c), g, c.inNodeId)

\* every connection of the node on top of the stack was followed
WalkReturn(w, s) ==
    [w |-> [w EXCEPT !.stack = SubSeq(@, 1, Len(@) - 1)], s |-> s]

\* Full model reset: clear the registry entirely, then populate again.
onModelReset(s, g, order) ==
    LET s1 == EraseConnections(s, s.conns)
        s2 == EraseNodes(s1, s1.nodes)
    IN  Ran(<<s, s1, s2, traverseGraphAndPopulateGraphicsObjects(s2, g, order)>>, "done")

\* -------------------------------------------------------------- actions
Slot(name) ==
    [op |-> name, node |-> InvalidNodeId, conn |-> NoConnectionId,
     order |-> <<>>, value |-> "", outcome |-> "done",
     marked |-> NoMarks, emitted |-> <<>>]

Left(r) == r.steps[Len(r.steps)]

\* no slot has aborted the program
Running == lastOp.outcome # "aborted"

\* lastOp and trail keep the record of one slot, the last one of the
\* behaviour: slots run unrecorded, from the scene the constructor leaves,
\* until one slot is recorded.  Whatever slot runs in whatever reachable
\* scene is the recorded slot of some behaviour.
NoRecord == Slot("none")

Unrecorded == lastOp.op \in {"BasicGraphicsScene", "none"}

\* the slot ran to its end: the scene is the one it leaves
Run(r, op) ==
    /\ Running /\ Unrecorded
    /\ _nodeGraphicsObjects' = Left(r).nodes
    /\ _connectionGraphicsObjects' = Left(r).conns
    /\ _draftConnection' = Left(r).draft
    /\ items' = Left(r).items
    /\ _orientation' = Left(r).orientation
    /\ _nodeGeometry' = Left(r).nodeGeometry
    /\ _nodePainter' = Left(r).nodePainter
    /\ _connectionPainter' = Left(r).connectionPainter
    /\ layout' = Left(r).layout
    /\ position' = Left(r).position
    /\ pos' = Left(r).pos
    /\ UNCHANGED walk
    /\ \/ /\ trail' = SubSeq(r.steps, 1, Len(r.steps) - 1)
          /\ lastOp' = [op EXCEPT !.outcome = r.outcome, !.marked = r.marked,
                                  !.emitted = r.emitted]
       \/ /\ trail' = <<>>
          /\ lastOp' = NoRecord

\* connectionDeleted delivered for each connection of cs, one after another
RECURSIVE DeliverConnectionsDeleted(_, _)
DeliverConnectionsDeleted(s, cs) ==
    IF cs = {} THEN s
    ELSE LET c == CHOOSE x \in cs : TRUE
         IN  DeliverConnectionsDeleted(Left(onConnectionDeleted(s, c)), cs \ {c})

\* The constructor populates the empty scene from the model it is given.
Init ==
    \E g \in Graphs : \E order \in Orders(g.nodes) :
        LET s == traverseGraphAndPopulateGraphicsObjects(EmptyScene, g, order)
        IN  /\ _graphModel = g
            /\ _nodeGraphicsObjects = s.nodes
            /\ _connectionGraphicsObjects = s.conns
            /\ _draftConnection = s.draft
            /\ items = s.items
            /\ _orientation = s.orientation
            /\ _nodeGeometry = s.nodeGeometry
            /\ _nodePainter = s.nodePainter
            /\ _connectionPainter = s.connectionPainter
            /\ layout = s.layout
            /\ position = s.position
            /\ pos = s.pos
            /\ walk = NoWalk
            /\ trail = <<EmptyScene>>
            /\ lastOp = [Slot("BasicGraphicsScene") EXCEPT !.order = order]

\* The constructor at its call of the traversal: the scene is empty.
InitTraverse ==
    \E g \in Graphs : \E order \in Orders(g.nodes) :
        /\ _graphModel = g
        /\ _nodeGraphicsObjects = {}
        /\ _connectionGraphicsObjects = {}
        /\ _draftConnection = {}
        /\ items = EmptyScene.items
        /\ _orientation = EmptyScene.orientation
        /\ _nodeGeometry = EmptyScene.nodeGeometry
        /\ _nodePainter = EmptyScene.nodePainter
        /\ _connectionPainter = EmptyScene.connectionPainter
        /\ layout = EmptyScene.layout
        /\ position = EmptyScene.position
        /\ pos = EmptyScene.pos
        /\ walk = [NoWalk EXCEPT !.pc = "walking"]
        /\ trail = <<EmptyScene>>
        /\ lastOp = [Slot("traverseGraphAndPopulateGraphicsObjects") EXCEPT !.order = order]

\* one step of the traversal, which leaves the walk t.w and the scene t.s
Walk(t, pc) ==
    /\ walk.pc = "walking"
    /\ walk' = [t.w EXCEPT !.pc = pc, !.steps = @ + 1]
    /\ _nodeGraphicsObjects' = t.s.nodes
    /\ _connectionGraphicsObjects' = t.s.conns
    /\ _draftConnection' = t.s.draft
    /\ items' = t.s.items
    /\ pos' = t.s.pos
    /\ layout' = t.s.layout
    /\ UNCHANGED <<_graphModel, _orientation, _nodeGeometry, _nodePainter,
                   _connectionPainter, position, lastOp, trail>>

TraverseStart ==
    /\ walk.stack = <<>> /\ walk.next <= Len(lastOp.order)
    /\ Walk(WalkStart(walk, Scene, _graphModel, lastOp.order), "walking")

TraverseFollow(c) ==
    /\ walk.stack # <<>>
    /\ c \in NextOut(walk.stack[Len(walk.stack)].pending)
    /\ Walk(WalkFollow(walk, Scene, _graphModel, c), "walking")

TraverseReturn ==
    /\ walk.stack # <<>>
    /\ walk.stack[Len(walk.stack)].pending = {}
    /\ Walk(WalkReturn(walk, Scene), "walking")

TraverseFinish ==
    /\ walk.stack = <<>> /\ walk.next > Len(lastOp.order)
    /\ Walk([w |-> walk, s |-> Scene], "done")

\* The model gains a node and announces it.
ModelAddNode(n) ==
    /\ n \notin _graphModel.nodes
    /\ _graphModel' = [_graphModel EXCEPT !.nodes = @ \cup {n}]
    /\ Run(onNodeCreated(Scene, n), [Slot("onNodeCreated") EXCEPT !.node = n])

\* The model loses a node and the connections attached to it; it announces
\* the node, and before it (announceConns) each of the connections or not.
ModelDeleteNode(n, announceConns) ==
    /\ n \in _graphModel.nodes
    /\ LET attached == {c \in _graphModel.conns : Touches(c, n)}
           s0 == IF announceConns THEN DeliverConnectionsDeleted(Scene, attached)
                 ELSE Scene
           r  == onNodeDeleted(s0, n)
       IN  /\ _graphModel' = [nodes |-> _graphModel.nodes \ {n},
                              conns |-> _graphModel.conns \ attached]
           /\ Run(IF announceConns THEN Ran(<<Scene>> \o r.steps, r.outcome) ELSE r,
                  [Slot("onNodeDeleted") EXCEPT !.node = n])

\* The model gains a connection between two of its nodes and announces it.
ModelAddConnection(c) ==
    /\ c \notin _graphModel.conns
    /\ c.outNodeId \in _graphModel.nodes /\ c.inNodeId \in _graphModel.nodes
    /\ Cardinality(_graphModel.conns) < MaxConns
    /\ _graphModel' = [_graphModel EXCEPT !.conns = @ \cup {c}]
    /\ Run(onConnectionCreated(Scene, c), [Slot("onConnectionCreated") EXCEPT !.conn = c])

ModelDeleteConnection(c) ==
    /\ c \in _graphModel.conns
    /\ _graphModel' = [_graphModel EXCEPT !.conns = @ \ {c}]
    /\ Run(onConnectionDeleted(Scene, c), [Slot("onConnectionDeleted") EXCEPT !.conn = c])

\* The model replaces its whole content and announces modelReset.  The
\* reset is the recorded slot of its behaviour.
ModelResetTo(g, order) ==
    /\ _graphModel' = g
    /\ Run(onModelReset(Scene, g, order), [Slot("onModelReset") EXCEPT !.order = order])
    /\ lastOp'.op = "onModelReset"

\* Benign repetition: a notification for a change the model made before.
DuplicateNodeCreated(n) ==
    /\ n \in _graphModel.nodes
    /\ UNCHANGED _graphModel
    /\ Run(onNodeCreated(Scene, n), [Slot("onNodeCreated") EXCEPT !.node = n])

DuplicateNodeDeleted(n) ==
    /\ n \notin _graphModel.nodes
    /\ UNCHANGED _graphModel
    /\ Run(onNodeDeleted(Scene, n), [Slot("onNodeDeleted") EXCEPT !.node = n])

DuplicateConnectionCreated(c) ==
    /\ c \in _graphModel.conns
    /\ UNCHANGED _graphModel
    /\ Run(onConnectionCreated(Scene, c), [Slot("onConnectionCreated") EXCEPT !.conn = c])

DuplicateConnectionDeleted(c) ==
    /\ c \notin _graphModel.conns
    /\ UNCHANGED _graphModel
    /\ Run(onConnectionDeleted(Scene, c), [Slot("onConnectionDeleted") EXCEPT !.conn = c])

\* Protocol violation by the model: it gains a connection together with an
\* end node of it and announces the connection before the node (the node
\* is announced later, by DuplicateNodeCreated).
EarlyConnectionCreated(c) ==
    /\ c \notin _graphModel.conns
    /\ c.outNodeId \notin _graphModel.nodes \/ c.inNodeId \notin _graphModel.nodes
    /\ Cardinality(_graphModel.conns) < MaxConns
    /\ _graphModel' = [nodes |-> _graphModel.nodes \cup {c.outNodeId, c.inNodeId},
                       conns |-> _graphModel.conns \cup {c}]
    /\ Run(onConnectionCreated(Scene, c), [Slot("onConnectionCreated") EXCEPT !.conn = c])

\* The user drags from a port of a node on the scene.
MakeDraft(d) ==
    /\ BoundNode(d) \in _nodeGraphicsObjects
    /\ UNCHANGED _graphModel
    /\ Run(makeDraftConnection(Scene, d), [Slot("makeDraftConnection") EXCEPT !.conn = d])

\* The user releases the mouse button without attaching the draft.
CancelDraft ==
    /\ UNCHANGED _graphModel
    /\ Run(resetDraftConnection(Scene), Slot("resetDraftConnection"))

ClearScene ==
    /\ UNCHANGED _graphModel
    /\ Run(clearScene(Scene), Slot("clearScene"))

\* The model moves a node and announces it.
ModelMoveNode(n, p) ==
    /\ n \in _graphModel.nodes
    /\ UNCHANGED _graphModel
    /\ Run(onNodePositionUpdated([Scene EXCEPT !.position[n] = p], n),
           [Slot("onNodePositionUpdated") EXCEPT !.node = n])

\* a position notification for a node the model has not moved, or does not
\* hold
NodePositionUpdated(n) ==
    /\ UNCHANGED _graphModel
    /\ Run(onNodePositionUpdated(Scene, n),
           [Slot("onNodePositionUpdated") EXCEPT !.node = n])

\* The model changes the content of a node, or not, and announces it.
NodeUpdated(n) ==
    /\ UNCHANGED _graphModel
    /\ Run(onNodeUpdated(Scene, n), [Slot("onNodeUpdated") EXCEPT !.node = n])

\* A click on a node is delivered to the scene.
NodeClicked(n) ==
    /\ UNCHANGED _graphModel
    /\ Run(onNodeClicked(Scene, n), [Slot("onNodeClicked") EXCEPT !.node = n])

SetNodeGeometry(g) ==
    /\ UNCHANGED _graphModel
    /\ Run(setNodeGeometry(Scene, g), [Slot("setNodeGeometry") EXCEPT !.value = g])

SetNodePainter(g) ==
    /\ UNCHANGED _graphModel
    /\ Run(setNodePainter(Scene, g), [Slot("setNodePainter") EXCEPT !.value = g])

SetConnectionPainter(g) ==
    /\ UNCHANGED _graphModel
    /\ Run(setConnectionPainter(Scene, g),
           [Slot("setConnectionPainter") EXCEPT !.value = g])

SetOrientation(o) ==
    /\ UNCHANGED _graphModel
    /\ Run(setOrientation(Scene, o), [Slot("setOrientation") EXCEPT !.value = o])

\* the model changes and every notification arrives in order, nodes first
NextSync ==
    \/ \E n \in NodeIds : ModelAddNode(n)
    \/ \E n \in NodeIds : \E b \in BOOLEAN : ModelDeleteNode(n, b)
    \/ \E c \in ConnectionIds : ModelAddConnection(c)
    \/ \E c \in ConnectionIds : ModelDeleteConnection(c)
    \/ \E d \in DraftIds : MakeDraft(d)
    \/ CancelDraft

Next ==
    \/ \E n \in NodeIds : ModelAddNode(n)
    \/ \E n \in NodeIds : \E b \in BOOLEAN : ModelDeleteNode(n, b)
    \/ \E c \in ConnectionIds : ModelAddConnection(c)
    \/ \E c \in ConnectionIds : ModelDeleteConnection(c)
    \/ \E d \in DraftIds : MakeDraft(d)
    \/ CancelDraft
    \/ \E n \in NodeIds : DuplicateNodeCreated(n)
    \/ \E n \in NodeIds : DuplicateNodeDeleted(n)
    \/ \E c \in ConnectionIds : DuplicateConnectionCreated(c)
    \/ \E c \in ConnectionIds : DuplicateConnectionDeleted(c)
    \/ \E c \in ConnectionIds : EarlyConnectionCreated(c)
    \/ ClearScene

\* Nodes are deleted, the scene is cleared, and then the model resets.  The
\* behaviours are explored up to their first reset: the scene a reset leaves
\* is a scene the constructor leaves, with the draft kept.
BeforeReset == lastOp.op # "onModelReset"

NextReset ==
    \/ \E n \in NodeIds : \E b \in BOOLEAN : BeforeReset /\ ModelDeleteNode(n, b)
    \/ BeforeReset /\ ClearScene
    \/ \E g \in Graphs : \E order \in Orders(g.nodes) : BeforeReset /\ ModelResetTo(g, order)

\* The scene is looked at and drawn, and a draft is dragged, while the
\* model's topology stays as it is.
NextView ==
    \/ \E o \in Orientations : SetOrientation(o)
    \/ \E d \in DraftIds : MakeDraft(d)
    \/ \E n \in NodeIds : NodePositionUpdated(n)
    \/ \E n \in NodeIds : NodeUpdated(n)
    \/ \E n \in NodeIds : NodeClicked(n)

\* The owner swaps the strategies, and the content of a node is updated.
NextStrategy ==
    \/ \E g \in Strategies : SetNodeGeometry(g)
    \/ \E g \in Strategies : SetNodePainter(g)
    \/ \E g \in Strategies : SetConnectionPainter(g)
    \/ \E n \in NodeIds : NodeUpdated(n)

\* The model moves its nodes about.
NextMove ==
    \/ \E n \in NodeIds : \E p \in Positions : ModelMoveNode(n, p)
    \/ \E n \in NodeIds : NodePositionUpdated(n)
    \/ \E d \in DraftIds : MakeDraft(d)

\* The traversal runs in the constructor, step after step without a pause.
NextTraverse ==
    \/ TraverseStart
    \/ \E c \in ConnectionIds : TraverseFollow(c)
    \/ TraverseReturn
    \/ TraverseFinish

Spec == Init /\ [][Next]_vars

SpecSync == Init /\ [][NextSync]_vars

SpecReset == Init /\ [][NextReset]_vars

SpecView == Init /\ [][NextView]_vars

SpecMove == Init /\ [][NextMove]_vars

SpecStrategy == Init /\ [][NextStrategy]_vars

SpecTraverse == InitTraverse /\ [][NextTraverse]_vars /\ WF_vars(NextTraverse)

\* ----------------------------------------------------------- properties
\* the scene the last slot was entered in
Entry == trail[1]

\* every scene the last slot went through, the one it left included
Passed == {trail[i] : i \in 1..Len(trail)} \cup {Scene}

SameRegistry(s1, s2) ==
    /\ s1.nodes = s2.nodes /\ s1.conns = s2.conns
    /\ s1.items.node = s2.items.node /\ s1.items.conn = s2.items.conn

\* C1: the registries hold at most one graphical object per NodeId and per
\* ConnectionId (and the object of every key is alive); a created
\* notification for an id already present and a deleted notification for an
\* absent id leave the registries unchanged.
C1_AtMostOnePerId ==
    /\ \A n \in NodeIds :
          /\ CopiesIn(n, items.node) <= 1
          /\ n \in _nodeGraphicsObjects => CopiesIn(n, items.node) = 1
    /\ \A c \in ConnectionIds :
          /\ CopiesIn(c, items.conn) <= 1
          /\ c \in _connectionGraphicsObjects => CopiesIn(c, items.conn) = 1
    /\ (lastOp.op = "onNodeCreated" /\ lastOp.node \in Entry.nodes)
          => SameRegistry(Scene, Entry)
    /\ (lastOp.op = "onConnectionCreated" /\ lastOp.conn \in Entry.conns)
          => SameRegistry(Scene, Entry)
    /\ (lastOp.op = "onNodeDeleted" /\ lastOp.node \notin Entry.nodes)
          => SameRegistry(Scene, Entry)
    /\ (lastOp.op = "onConnectionDeleted" /\ lastOp.conn \notin Entry.conns)
          => SameRegistry(Scene, Entry)

\* a node was announced again while its object was there, and a connection
\* object is there as well
C1_Witness ==
    /\ lastOp.op = "onNodeCreated" /\ lastOp.outcome = "noop"
    /\ lastOp.node \in _nodeGraphicsObjects
    /\ _connectionGraphicsObjects # {}

\* C2: onNodeDeleted(n) with an object for n there removes that node object
\* and exactly the connection objects with n on either end; every other
\* node object and connection object stays.
C2_NodeDeleteCascade ==
    (lastOp.op = "onNodeDeleted" /\ lastOp.node \in Entry.nodes) =>
        LET attached == {c \in Entry.conns : Touches(c, lastOp.node)}
        IN  /\ _nodeGraphicsObjects = Entry.nodes \ {lastOp.node}
            /\ _connectionGraphicsObjects = Entry.conns \ attached
            /\ items.node = Entry.items.node (-) SetToBag({lastOp.node})
            /\ items.conn = Entry.items.conn (-) SetToBag(attached)
            /\ items.conn = SetToBag(Entry.conns \ attached)

\* a node with a connection attached was deleted while another connection,
\* not attached to it, stayed
C2_Witness ==
    /\ lastOp.op = "onNodeDeleted" /\ lastOp.outcome = "done"
    /\ \E c \in Entry.conns : Touches(c, lastOp.node)
    /\ \E c \in Entry.conns : ~Touches(c, lastOp.node) /\ c \in _connectionGraphicsObjects
    /\ _nodeGraphicsObjects # {}

\* C3: at most one draft connection exists in every scene, the scenes inside
\* a slot included; makeDraftConnection destroys the draft it finds before
\* it constructs the new one, and leaves the slot holding the new draft only.
C3_SingleDraft ==
    /\ \A s \in Passed :
          Cardinality(s.draft) <= 1 /\ BagCardinality(s.items.draft) <= 1
    /\ lastOp.op = "makeDraftConnection" =>
          /\ trail[2].draft = {} /\ trail[2].items.draft = EmptyBag
          /\ trail[3].items.draft = SetToBag({lastOp.conn})
          /\ _draftConnection = {lastOp.conn}
          /\ items.draft = SetToBag({lastOp.conn})

\* a draft was begun while another draft, from another port, existed
C3_Witness ==
    /\ lastOp.op = "makeDraftConnection"
    /\ Entry.draft # {} /\ lastOp.conn \notin Entry.draft
    /\ Entry.items.draft = SetToBag(Entry.draft)

\* C4: the traversal run on an empty registry leaves exactly one node object
\* per node of the model and one connection object per connection of the
\* model, and nothing else, in whatever order the model enumerates its nodes.
C4_TraversalPopulates ==
    lastOp.op \in {"BasicGraphicsScene", "onModelReset"} =>
        /\ trail[Len(trail)].nodes = {} /\ trail[Len(trail)].conns = {}
        /\ _nodeGraphicsObjects = _graphModel.nodes
        /\ _connectionGraphicsObjects = _graphModel.conns
        /\ items.node = SetToBag(_graphModel.nodes)
        /\ items.conn = SetToBag(_graphModel.conns)

\* the model enumerated the Out-side node of a connection before its In-side
\* node, and holds a second connection
C4_Witness ==
    /\ lastOp.op = "onModelReset"
    /\ Entry.nodes # {}
    /\ Cardinality(_graphModel.conns) = 2
    /\ \E c \in _graphModel.conns : \E i, j \in 1..Len(lastOp.order) :
          /\ i < j /\ lastOp.order[i] = c.outNodeId /\ lastOp.order[j] = c.inNodeId
          /\ c \in _connectionGraphicsObjects

\* C5: when a draft begun at a port exists and onConnectionCreated arrives
\* for a connection at that port whose end nodes have graphical objects,
\* then afterwards exactly one connection object exists for the id and no
\* draft exists, and no scene the slot went through held both a draft and
\* the full object.
C5_DraftPromotion ==
    ( /\ lastOp.op = "onConnectionCreated"
      /\ lastOp.conn \notin Entry.conns
      /\ lastOp.conn.outNodeId \in Entry.nodes /\ lastOp.conn.inNodeId \in Entry.nodes
      /\ \E d \in Entry.draft :
            \/ d.outNodeId = lastOp.conn.outNodeId /\ d.outPortIndex = lastOp.conn.outPortIndex
            \/ d.inNodeId = lastOp.conn.inNodeId /\ d.inPortIndex = lastOp.conn.inPortIndex )
    => /\ lastOp.conn \in _connectionGraphicsObjects
       /\ CopiesIn(lastOp.conn, items.conn) = 1
       /\ _draftConnection = {} /\ items.draft = EmptyBag
       /\ \A s \in Passed :
             ~(s.items.draft # EmptyBag /\ BagIn(lastOp.conn, s.items.conn))

\* a draft begun at the Out port of one node was promoted to a connection
\* into another node
C5_Witness ==
    /\ lastOp.op = "onConnectionCreated" /\ lastOp.outcome = "done"
    /\ lastOp.conn.outNodeId # lastOp.conn.inNodeId
    /\ \E d \in Entry.draft :
          d.outNodeId = lastOp.conn.outNodeId /\ d.outPortIndex = lastOp.conn.outPortIndex
    /\ lastOp.conn \in _connectionGraphicsObjects

\* C6: after clearScene both registries are empty: nodeGraphicsObject returns
\* nullptr for every NodeId and connectionGraphicsObject returns nullptr for
\* every ConnectionId, those that had an object before included.
C6_ClearSceneEmpties ==
    lastOp.op = "clearScene" =>
        /\ _nodeGraphicsObjects = {} /\ _connectionGraphicsObjects = {}
        /\ items.node = EmptyBag /\ items.conn = EmptyBag
        /\ \A n \in NodeIds \cup Entry.nodes : nodeGraphicsObject(Scene, n) = nullptr
        /\ \A c \in ConnectionIds \cup Entry.conns :
              connectionGraphicsObject(Scene, c) = nullptr

\* a scene with node objects and connection objects was cleared
C6_Witness ==
    /\ lastOp.op = "clearScene"
    /\ Cardinality(Entry.nodes) > 1 /\ Entry.conns # {}
    /\ nodeGraphicsObject(Entry, 1) # nullptr

C8_ConnectionOnlyIfInModel ==
    /\ _connectionGraphicsObjects \subseteq _graphModel.conns
    /\ \A c \in ConnectionIds : BagIn(c, items.conn) => c \in _graphModel.conns

\* the model removed a connection that had a graphical object
C8_Witness ==
    /\ lastOp.op = "onConnectionDeleted" /\ lastOp.outcome = "done"
    /\ lastOp.conn \in Entry.conns
    /\ lastOp.conn \notin _graphModel.conns
    /\ _connectionGraphicsObjects # {}

\* C9: while the model changes and announces every change in order, nodes
\* before their connections, the NodeIds with a graphical object are the
\* model's nodes and the ConnectionIds with one are the model's connections,
\* one object each.
C9_SceneMirrorsModel ==
    /\ _nodeGraphicsObjects = _graphModel.nodes
    /\ _connectionGraphicsObjects = _graphModel.conns
    /\ items.node = SetToBag(_graphModel.nodes)
    /\ items.conn = SetToBag(_graphModel.conns)

\* the model gained its second connection after a node had been added
C9_Witness ==
    /\ lastOp.op = "onConnectionCreated" /\ lastOp.outcome = "done"
    /\ Cardinality(_graphModel.conns) = MaxConns
    /\ _graphModel.nodes = NodeIds
    /\ _draftConnection # {}

\* C10: onConnectionCreated for a connection with an end node that has no
\* graphical object creates nothing: registries, items and draft slot are
\* as before, the inconsistency is logged, and the program goes on.
C10_MissingEndpointSkipped ==
    /\ Running
    /\ ( /\ lastOp.op = "onConnectionCreated"
         /\ \/ lastOp.conn.outNodeId \notin Entry.nodes
            \/ lastOp.conn.inNodeId \notin Entry.nodes )
       => /\ Scene = Entry
          /\ lastOp.conn \notin _connectionGraphicsObjects
          /\ lastOp.outcome = "logged"

\* a connection was announced before one of its end nodes while a draft from
\* its other end was there
C10_Witness ==
    /\ lastOp.op = "onConnectionCreated" /\ lastOp.outcome = "logged"
    /\ lastOp.conn.outNodeId \in _nodeGraphicsObjects
    /\ lastOp.conn.inNodeId \notin _nodeGraphicsObjects
    /\ \E d \in _draftConnection : d.outNodeId = lastOp.conn.outNodeId

\* C11: setOrientation never constructs or destroys a graphical object: the
\* NodeIds and ConnectionIds with an object, the live objects and the draft
\* are the same before and after the call; orientation() returns the value
\* set; and a call that changes the orientation marks every existing
\* graphical object, the draft included, for recomputation and redraw.
C11_SetOrientationFrame ==
    lastOp.op = "setOrientation" =>
        /\ SameRegistry(Scene, Entry)
        /\ _draftConnection = Entry.draft /\ items.draft = Entry.items.draft
        /\ orientation(Scene) = lastOp.value
        /\ orientation(Entry) # lastOp.value =>
              /\ lastOp.marked.node = _nodeGraphicsObjects
              /\ lastOp.marked.conn = _connectionGraphicsObjects
              /\ lastOp.marked.draft = _draftConnection

\* the orientation of a scene with node objects, a connection object and a
\* draft was changed
C11_Witness ==
    /\ lastOp.op = "setOrientation" /\ lastOp.outcome = "done"
    /\ orientation(Entry) # orientation(Scene)
    /\ Cardinality(_nodeGraphicsObjects) > 1
    /\ _connectionGraphicsObjects # {} /\ _draftConnection # {}

\* C12: resetDraftConnection destroys the draft if there is one and changes
\* nothing if there is none; either way no draft exists afterwards and the
\* node and connection registries are as before, and a second call right
\* after it leaves the scene the first call left.
C12_ResetDraftIdempotent ==
    lastOp.op = "resetDraftConnection" =>
        /\ _draftConnection = {} /\ items.draft = EmptyBag
        /\ SameRegistry(Scene, Entry)
        /\ items.draft = Entry.items.draft (-) SetToBag(Entry.draft)
        /\ Entry.draft = {} => Scene = Entry /\ lastOp.outcome = "noop"
        /\ Left(resetDraftConnection(Scene)) = Scene
        /\ resetDraftConnection(Scene).outcome = "noop"

\* a draft was cancelled in a scene that holds a connection object
C12_Witness ==
    /\ lastOp.op = "resetDraftConnection" /\ lastOp.outcome = "done"
    /\ Entry.draft # {} /\ BagCardinality(Entry.items.draft) = 1
    /\ _connectionGraphicsObjects # {}

\* C13: onModelReset first empties both registries and then populates them
\* by the traversal: when it is done the registries hold exactly one node
\* object per node of the model and one connection object per connection of
\* the model, and no object for an id the model does not hold, whatever
\* the registries held before.
C13_ModelResetRebuilds ==
    lastOp.op = "onModelReset" =>
        /\ Len(trail) = 3
        /\ trail[2].conns = {} /\ trail[2].items.conn = EmptyBag
        /\ trail[3].nodes = {} /\ trail[3].items.node = EmptyBag
        /\ trail[3].conns = {} /\ trail[3].items.conn = EmptyBag
        /\ \A n \in NodeIds \cup Entry.nodes :
              /\ CopiesIn(n, items.node) = IF n \in _graphModel.nodes THEN 1 ELSE 0
              /\ (nodeGraphicsObject(Scene, n) # nullptr) = (n \in _graphModel.nodes)
        /\ \A c \in ConnectionIds \cup Entry.conns :
              /\ CopiesIn(c, items.conn) = IF c \in _graphModel.conns THEN 1 ELSE 0
              /\ (connectionGraphicsObject(Scene, c) # nullptr) = (c \in _graphModel.conns)

\* the model was reset to a graph that lacks a node and a connection the
\* registries held and keeps another node and a connection
C13_Witness ==
    /\ lastOp.op = "onModelReset"
    /\ \E n \in Entry.nodes : n \notin _nodeGraphicsObjects
    /\ \E c \in Entry.conns : c \notin _connectionGraphicsObjects
    /\ \E n \in _nodeGraphicsObjects : n \in Entry.nodes
    /\ _connectionGraphicsObjects # {}

\* the steps a traversal of the graph g takes: a start and a return for
\* every node, a step for every connection, and the last step
WalkLength(g) == 2 * Cardinality(g.nodes) + Cardinality(g.conns) + 1

\* no node is constructed or walked twice, the traversal never takes more
\* steps than WalkLength and never stops before it is done, its stack is
\* never deeper than the model has nodes, and the scene it leaves is the
\* one traverseGraphAndPopulateGraphicsObjects yields
C14_WalkedOnce ==
    /\ \A n \in NodeIds :
          CopiesIn(n, walk.built) <= 1 /\ CopiesIn(n, walk.walked) <= 1
    /\ walk.steps <= WalkLength(_graphModel)
    /\ Len(walk.stack) <= Cardinality(_graphModel.nodes)
    /\ walk.pc = "walking" => ENABLED NextTraverse
    /\ walk.pc = "done" =>
          /\ walk.steps = WalkLength(_graphModel)
          /\ walk.visited = _graphModel.nodes
          /\ walk.built = SetToBag(_graphModel.nodes)
          /\ Scene = traverseGraphAndPopulateGraphicsObjects(
                         EmptyScene, _graphModel, lastOp.order)

\* C14: traverseGraphAndPopulateGraphicsObjects terminates on every model,
\* also when connections form cycles or self-loops, and constructs each
\* node graphical object at most once, because a node visited before is
\* not walked again.
C14_TraversalTerminates ==
    /\ []C14_WalkedOnce
    /\ <>(walk.pc = "done")

\* the traversal of a model with a self-loop and a cycle through both of
\* its nodes is done
C14_Witness ==
    /\ walk.pc = "done"
    /\ \E c \in _graphModel.conns : c.outNodeId = c.inNodeId
    /\ \E c \in _graphModel.conns : c.outNodeId # c.inNodeId
    /\ Cardinality(_nodeGraphicsObjects) > 1
    /\ _connectionGraphicsObjects = _graphModel.conns

\* C15: onNodePositionUpdated(n) with an object for n there puts that object
\* where the model reports n, leaves every other node object where it was,
\* and marks for recomputation and redraw every connection object with n on
\* either end and no connection that is not attached to n; with no object
\* for n it changes nothing, logs, and the program goes on.
C15_PositionUpdateMarksAttached ==
    /\ Running
    /\ lastOp.op = "onNodePositionUpdated" =>
          IF lastOp.node \in Entry.nodes
          THEN /\ pos[lastOp.node] = position[lastOp.node]
               /\ \A n \in NodeIds \ {lastOp.node} : pos[n] = Entry.pos[n]
               /\ lastOp.marked.conn =
                     {c \in _connectionGraphicsObjects : Touches(c, lastOp.node)}
               /\ \A d \in lastOp.marked.draft : BoundNode(d) = lastOp.node
               /\ SameRegistry(Scene, Entry)
          ELSE /\ Scene = Entry
               /\ lastOp.marked = NoMarks
               /\ lastOp.outcome = "logged"

\* a node with a connection attached was moved to another place while a
\* connection not attached to it and a draft were there
C15_Witness ==
    /\ lastOp.op = "onNodePositionUpdated" /\ lastOp.outcome = "done"
    /\ pos[lastOp.node] # Entry.pos[lastOp.node]
    /\ lastOp.marked.conn # {}
    /\ \E c \in _connectionGraphicsObjects : ~Touches(c, lastOp.node)
    /\ \E n \in NodeIds : pos[n] # pos[lastOp.node]
    /\ _draftConnection # {}

\* C16: onNodeClicked, onNodeUpdated and onNodePositionUpdated construct and
\* destroy nothing, for a NodeId with an object and for one without: the
\* keys of both registries, the live objects and the draft slot are as
\* before the call; onNodeClicked(n) emits nodeClicked(n), no other signal
\* and not more than once, and the other two slots emit no nodeClicked.
C16_NodeEventsFrame ==
    lastOp.op \in {"onNodeClicked", "onNodeUpdated", "onNodePositionUpdated"} =>
        /\ SameRegistry(Scene, Entry)
        /\ _draftConnection = Entry.draft /\ items.draft = Entry.items.draft
        /\ \A i \in 1..Len(lastOp.emitted) :
              /\ lastOp.op = "onNodeClicked"
              /\ lastOp.emitted[i] = [signal |-> "nodeClicked", node |-> lastOp.node]
        /\ Len(lastOp.emitted) <= 1

\* a node without a graphical object was clicked while a draft and a
\* connection object were there
C16_Witness ==
    /\ lastOp.op = "onNodeClicked"
    /\ lastOp.node \notin _nodeGraphicsObjects
    /\ Len(lastOp.emitted) = 1
    /\ _draftConnection # {} /\ _connectionGraphicsObjects # {}

\* the strategies a scene owns, as the accessors answer
Owned(s) == <<nodeGeometry(s), nodePainter(s), connectionPainter(s)>>

\* C17: setNodeGeometry, setNodePainter and setConnectionPainter replace the
\* owned strategy: the accessor answers the new instance from then on, until
\* the setter is called again, and the other two strategies stay.  No
\* graphical object is constructed or destroyed, none is marked for redraw,
\* and the layout cached in the objects is the one cached before the swap.
C17_StrategySwap ==
    /\ lastOp.op = "setNodeGeometry" =>
          Owned(Scene) = <<lastOp.value, nodePainter(Entry), connectionPainter(Entry)>>
    /\ lastOp.op = "setNodePainter" =>
          Owned(Scene) = <<nodeGeometry(Entry), lastOp.value, connectionPainter(Entry)>>
    /\ lastOp.op = "setConnectionPainter" =>
          Owned(Scene) = <<nodeGeometry(Entry), nodePainter(Entry), lastOp.value>>
    /\ lastOp.op \notin {"setNodeGeometry", "setNodePainter", "setConnectionPainter",
                         NoRecord.op} =>
          Owned(Scene) = Owned(Entry)
    /\ lastOp.op \in {"setNodeGeometry", "setNodePainter", "setConnectionPainter"} =>
          /\ SameRegistry(Scene, Entry)
          /\ _draftConnection = Entry.draft /\ items.draft = Entry.items.draft
          /\ lastOp.marked = NoMarks
          /\ layout = Entry.layout

\* the geometry was swapped for another instance under a node whose layout
\* had been computed anew after an earlier swap, and under a connection
\* object whose layout had not: both are stale now
C17_Witness ==
    /\ lastOp.op = "setNodeGeometry"
    /\ nodeGeometry(Entry) # nodeGeometry(Scene)
    /\ \E n \in _nodeGraphicsObjects : layout.node[n] = nodeGeometry(Entry)
    /\ \E c \in _connectionGraphicsObjects : layout.conn[c] = nodeGeometry(Scene)

\* C18: whenever a draft connection exists, the node of its bound end has a
\* graphical object in the registry, after every makeDraftConnection,
\* onNodeDeleted and clearScene.  (The slots leave the draft alone: it
\* outlives the object of the node it is bound to.)
C18_DraftBoundNodePresent ==
    \A d \in _draftConnection :
        /\ nodeGraphicsObject(Scene, BoundNode(d)) # nullptr
        /\ BagIn(BoundNode(d), items.node)

\* C19: the draft is held outside the keyed connection registry:
\* makeDraftConnection(id) leaves the node registry and the connection
\* registry as they were, so connectionGraphicsObject returns nullptr for
\* every ConnectionId that had no full connection object before the call,
\* the partial id the draft was made with included.
C19_DraftOutsideRegistry ==
    lastOp.op = "makeDraftConnection" =>
        /\ SameRegistry(Scene, Entry)
        /\ \A c \in ConnectionIds \cup DraftIds :
              connectionGraphicsObject(Entry, c) = nullptr
                  => connectionGraphicsObject(Scene, c) = nullptr
        /\ connectionGraphicsObject(Scene, lastOp.conn) = nullptr
        /\ ~BagIn(lastOp.conn, items.conn)
        /\ _draftConnection = {lastOp.conn}

\* a draft was begun at the Out port of a node that has a full connection
\* on that port, while another ConnectionId had no object
C19_Witness ==
    /\ lastOp.op = "makeDraftConnection"
    /\ \E c \in _connectionGraphicsObjects :
          c.outNodeId = lastOp.conn.outNodeId /\ c.outPortIndex = lastOp.conn.outPortIndex
    /\ \E c \in ConnectionIds : connectionGraphicsObject(Scene, c) = nullptr
    /\ BagIn(lastOp.conn, items.draft)

\* C20: onConnectionCreated and onConnectionDeleted never construct or
\* destroy a node graphical object: the NodeIds in the node registry and the
\* live node objects are the same before and after either slot; the nodes
\* they mark for redraw are the two endpoint nodes of the connection, when
\* the slot acted, and never another node.
C20_ConnectionSlotsNodeFrame ==
    lastOp.op \in {"onConnectionCreated", "onConnectionDeleted"} =>
        LET ends == {lastOp.conn.outNodeId, lastOp.conn.inNodeId}
        IN  /\ _nodeGraphicsObjects = Entry.nodes
            /\ items.node = Entry.items.node
            /\ lastOp.marked.node \subseteq ends
            /\ lastOp.outcome = "done" => lastOp.marked.node = ends

\* a connection from a node to itself was deleted while the object of
\* another node was there
C20_Witness ==
    /\ lastOp.op = "onConnectionDeleted" /\ lastOp.outcome = "done"
    /\ lastOp.marked.node = {lastOp.conn.outNodeId}
    /\ \E n \in _nodeGraphicsObjects : n \notin lastOp.marked.node

====
